---- MODULE Spec2Model ----
(***************************************************************************)
(* Model of father.py: the per-chat message history kept by store_message  *)
(* and the /summarize handler that renders it and calls the generation     *)
(* service.                                                                *)
(*                                                                         *)
(* Text is a tuple of one-character strings, so that len(), str.join() and *)
(* str.strip() are computed as Python computes them.  Timestamps are whole *)
(* seconds (the granularity of a Telegram message date).                   *)
(*                                                                         *)
(* Both handlers are coroutines of one asyncio event loop: a handler runs  *)
(* without interruption from one await to the next.  The awaits of         *)
(* summarize are asyncio.sleep(1) and reply_text(); the call               *)
(* client.chat.completions.create() is a plain synchronous call, so the    *)
(* event-loop thread stays inside it until it returns or raises.           *)
(***************************************************************************)
EXTENDS Integers, Sequences, FiniteSets, TLC

VARIABLES
    message_history,    \* father.py:18   chat_id -> list of stored messages
    inbox,              \* text-message updates received, not yet handled
    pc,                 \* position of the summarize coroutine in flight
    t_chat,             \* its chat_id
    text_to_summarize,  \* its rendered prompt body (father.py:74)
    summary,            \* its stripped generation result (father.py:99)
    outcome,            \* kind of the last reply it tried to send
    delivered,          \* the reply the user actually received from it
    gen_calls,          \* generation calls it has issued
    gen_result,         \* what its generation call did
    unhandled,          \* TRUE when an exception left the handler
    t_fresh,            \* history: no message had ever been appended to t_chat when it started
    t_aged,             \* history: when it started, every retained message was older than the window
    t_after_fail,       \* history: it started on the store left by a trigger whose generation call raised
    t_seen,             \* history: number of appends to t_chat completed when it read the store
    fail_chat,          \* history: chat whose store is as that failed trigger left it
    appended,           \* history: chat_id -> every message ever appended, in arrival order
    last_chat,          \* history: chat_id of the latest append
    n_arrived,          \* number of updates received so far
    n_triggers,         \* number of /summarize commands so far
    clock,              \* burst specification only: date stamped on the next message
    clock_moves         \* burst specification only: times the clock has moved

vars == << message_history, inbox, pc, t_chat, text_to_summarize, summary, outcome,
           delivered, gen_calls, gen_result, unhandled, t_fresh, t_aged, t_after_fail,
           t_seen, fail_chat, appended, last_chat, n_arrived, n_triggers, clock, clock_moves >>

trigger_vars == << pc, t_chat, text_to_summarize, summary, outcome, delivered,
                   gen_calls, gen_result, unhandled, t_fresh, t_aged, t_after_fail,
                   t_seen, n_triggers >>

-----------------------------------------------------------------------------
(* Program constants *)

\* father.py:143  [...][-100:]
MAX_RETAINED == 100

\* father.py:139  timedelta(hours=1), in seconds
RETENTION_WINDOW == 3600

\* father.py:77   len(text_to_summarize) < 10
MIN_BODY == 10

(* Bounds of the model *)

MaxArrivals == 2    \* updates received in one behaviour of Spec
MaxTriggers == 2    \* /summarize commands in one behaviour of Spec
MaxInbox == 1       \* updates waiting for the event loop
MaxBurst == 102     \* appends in one behaviour of SpecBurst
MaxClockMoves == 1  \* times the clock moves in one behaviour of SpecBurst
BatchSize == 50     \* messages between two moves of the clock in SpecBatch

-----------------------------------------------------------------------------
(* Inputs *)

Chats == {"A", "B"}
NoChat == "none"

\* Message dates: 0 and 3600 are exactly one window apart, 0 and 3601 more.
Times == {0, RETENTION_WINDOW, RETENTION_WINDOW + 1}

\* update.message.text; the empty text stands for a missing or empty text.
Texts == { <<>>, <<"o", "k">> }

\* update.message.from_user: one sender has a username, one only a first name.
Senders == { [username |-> <<"a", "l">>, first_name |-> <<"A", "l">>],
             [username |-> <<>>, first_name |-> <<"b", "o", "b", "b">>] }

Updates == [chat_id : Chats, text : Texts, date : Times, from_user : Senders]

\* response.choices[0].message.content when it is a string
GenTexts == { <<"A">>, <<" ", "A", "\n">> }

-----------------------------------------------------------------------------
(* Pure helpers *)

Max(a, b) == IF a >= b THEN a ELSE b

\* s[-n:] for n > 0
LastN(s, n) == SubSeq(s, Max(1, Len(s) - n + 1), Len(s))

Whitespace == {" ", "\n", "\t"}

\* str.strip(): leading and trailing whitespace removed
Strip(s) ==
    LET keep == { i \in 1..Len(s) : s[i] \notin Whitespace }
    IN  IF keep = {} THEN <<>>
        ELSE LET lo == CHOOSE i \in keep : \A j \in keep : i <= j
                 hi == CHOOSE i \in keep : \A j \in keep : i >= j
             IN  SubSeq(s, lo, hi)

\* father.py:74  f"[@{msg['username']}] {msg['text']}"
RenderMessage(msg) == <<"[", "@">> \o msg.username \o <<"]", " ">> \o msg.text

\* father.py:74  " ".join(... for msg in relevant_messages)
RECURSIVE Render(_)
Render(msgs) ==
    IF msgs = <<>> THEN <<>>
    ELSE IF Len(msgs) = 1 THEN RenderMessage(msgs[1])
    ELSE RenderMessage(msgs[1]) \o <<" ">> \o Render(Tail(msgs))

\* Retain without the count cap
RetainNoCap(history, cutoff_time) ==
    SelectSeq(history, LAMBDA msg : msg.timestamp >= cutoff_time)

\* Retain with the slice [:100]: the oldest messages kept
RetainFirst(history, cutoff_time) ==
    LET fresh == SelectSeq(history, LAMBDA msg : msg.timestamp >= cutoff_time)
    IN  SubSeq(fresh, 1, IF Len(fresh) < MAX_RETAINED THEN Len(fresh) ELSE MAX_RETAINED)

\* Retain with the slice [:-100]: everything but the newest messages kept
RetainDropLast(history, cutoff_time) ==
    LET fresh == SelectSeq(history, LAMBDA msg : msg.timestamp >= cutoff_time)
    IN  SubSeq(fresh, 1, Len(fresh) - MAX_RETAINED)

\* Retain with the two steps swapped: the count cap first, the time filter second
RetainCapFirst(history, cutoff_time) ==
    SelectSeq(LastN(history, MAX_RETAINED), LAMBDA msg : msg.timestamp >= cutoff_time)

\* Retain with the kept messages sorted by timestamp
RetainSorted(history, cutoff_time) ==
    SortSeq(LastN(SelectSeq(history, LAMBDA msg : msg.timestamp >= cutoff_time), MAX_RETAINED),
            LAMBDA a, b : a.timestamp < b.timestamp)

\* father.py:140-143  [msg for msg in history if msg['timestamp'] >= cutoff_time][-100:]
Retain(history, cutoff_time) ==
    LastN(SelectSeq(history, LAMBDA msg : msg.timestamp >= cutoff_time), MAX_RETAINED)

\* father.py:129  sender.username if sender.username else sender.first_name
Username(sender) ==
    IF sender.username # <<>> THEN sender.username ELSE sender.first_name

\* father.py:131-135  the stored message
StoredMessage(update) ==
    [text |-> update.text, timestamp |-> update.date, username |-> Username(update.from_user)]

\* CutoffTime one second too early
CutoffTimeEarly(update) == update.date - RETENTION_WINDOW - 1

\* father.py:139  cutoff_time = update.message.date - timedelta(hours=1)
CutoffTime(update) == update.date - RETENTION_WINDOW

\* StoredHistory with the eviction applied to every chat
StoredHistoryEvictAll(update) ==
    LET chat_id == update.chat_id
        prior   == IF chat_id \in DOMAIN message_history
                   THEN message_history[chat_id] ELSE <<>>
    IN  [c \in DOMAIN message_history \cup {chat_id} |->
            Retain(IF c = chat_id THEN Append(prior, StoredMessage(update))
                                  ELSE message_history[c],
                   CutoffTime(update))]

\* StoredHistory that appends and leaves the eviction out
StoredHistoryNoEviction(update) ==
    LET chat_id == update.chat_id
        prior   == IF chat_id \in DOMAIN message_history
                   THEN message_history[chat_id] ELSE <<>>
    IN  [c \in DOMAIN message_history \cup {chat_id} |->
            IF c = chat_id THEN Append(prior, StoredMessage(update)) ELSE message_history[c]]

\* StoredHistory that rebuilds the table with the one chat of the update
StoredHistoryOnlyThis(update) ==
    LET chat_id == update.chat_id
        prior   == IF chat_id \in DOMAIN message_history
                   THEN message_history[chat_id] ELSE <<>>
    IN  [c \in {chat_id} |-> Retain(Append(prior, StoredMessage(update)), CutoffTime(update))]

\* father.py:124-143  message_history after store_message has stored the update
StoredHistory(update) ==
    LET chat_id == update.chat_id
        prior   == IF chat_id \in DOMAIN message_history
                   THEN message_history[chat_id] ELSE <<>>
        kept    == Retain(Append(prior, StoredMessage(update)), CutoffTime(update))
    IN  [c \in DOMAIN message_history \cup {chat_id} |->
            IF c = chat_id THEN kept ELSE message_history[c]]

\* The replies of summarize
NoReply == [prefix |-> "", body |-> <<>>]
FixedReply(text) == [prefix |-> text, body |-> <<>>]
\* father.py:104  f"Summary:\n{summary}"
SummaryReply(s) == [prefix |-> "Summary:\n", body |-> s]

\* The reply and the outcome of each early return of summarize
GateOutcome(at) ==
    CASE at = "reply_no_history" -> "NoHistory"
      [] at = "reply_empty"      -> "EmptyAfterFilter"
      [] at = "reply_short"      -> "InsufficientContent"

GateReply(at) ==
    CASE at = "reply_no_history" -> FixedReply("No messages stored for this chat yet.")
      [] at = "reply_empty"      -> FixedReply("No messages found in chat.")
      [] at = "reply_short"      -> FixedReply("Not enough text to summarize.")

NoResult == [kind |-> "none", text |-> <<>>]

\* Gate reading the history with a default: an unknown chat taken for an empty one
GateNoLookup(chat_id) ==
    IF chat_id \notin DOMAIN message_history THEN "reply_empty"
    ELSE IF message_history[chat_id] = << >> THEN "reply_empty"
    ELSE IF Len(Render(message_history[chat_id])) < MIN_BODY THEN "reply_short"
    ELSE "generating"

\* Gate without the minimum-length test
GateNoMinimum(chat_id) ==
    IF chat_id \notin DOMAIN message_history THEN "reply_no_history"
    ELSE IF message_history[chat_id] = << >> THEN "reply_empty"
    ELSE "generating"

\* father.py:47-88  where summarize goes from the command: to one of its three
\* early returns (at the sleep before the reply) or into the generation call
Gate(chat_id) ==
    IF chat_id \notin DOMAIN message_history THEN "reply_no_history"
    ELSE IF message_history[chat_id] = << >> THEN "reply_empty"
    ELSE IF Len(Render(message_history[chat_id])) < MIN_BODY THEN "reply_short"
    ELSE "generating"

-----------------------------------------------------------------------------
(* Initial state: father.py:18, no handler running *)

InitCommon ==
    /\ message_history = << >>
    /\ inbox = << >>
    /\ pc = "idle"
    /\ t_chat = NoChat
    /\ text_to_summarize = << >>
    /\ summary = << >>
    /\ outcome = "None"
    /\ delivered = NoReply
    /\ gen_calls = 0
    /\ gen_result = NoResult
    /\ unhandled = FALSE
    /\ t_fresh = FALSE
    /\ t_aged = FALSE
    /\ t_after_fail = FALSE
    /\ t_seen = 0
    /\ fail_chat = NoChat
    /\ appended = [c \in Chats |-> << >>]
    /\ last_chat = NoChat
    /\ n_arrived = 0
    /\ n_triggers = 0

Init == InitCommon /\ clock = 0 /\ clock_moves = 0

-----------------------------------------------------------------------------
(* store_message *)

\* The transport receives a text-message update (father.py:155).
Arrive(update) ==
    /\ n_arrived < MaxArrivals
    /\ Len(inbox) < MaxInbox
    /\ inbox' = Append(inbox, update)
    /\ n_arrived' = n_arrived + 1
    /\ UNCHANGED << message_history, appended, last_chat, fail_chat, clock, clock_moves >>
    /\ UNCHANGED trigger_vars

\* Store with the key created before the text is looked at
StoreKeyFirst(update) ==
    IF update.text = << >>
    THEN /\ message_history' =
                IF update.chat_id \in DOMAIN message_history THEN message_history
                ELSE [c \in DOMAIN message_history \cup {update.chat_id} |->
                         IF c = update.chat_id THEN << >> ELSE message_history[c]]
         /\ UNCHANGED << appended, last_chat, fail_chat >>
    ELSE /\ message_history' = StoredHistory(update)
         /\ appended' = [appended EXCEPT ![update.chat_id] = Append(@, StoredMessage(update))]
         /\ last_chat' = update.chat_id
         /\ fail_chat' = IF fail_chat = update.chat_id THEN NoChat ELSE fail_chat

\* father.py:115-144  the whole handler on one update; it has no await.
Store(update) ==
    IF update.text = << >>
    THEN \* father.py:120-122
         UNCHANGED << message_history, appended, last_chat, fail_chat >>
    ELSE /\ message_history' = StoredHistory(update)
         /\ appended' = [appended EXCEPT ![update.chat_id] = Append(@, StoredMessage(update))]
         /\ last_chat' = update.chat_id
         /\ fail_chat' = IF fail_chat = update.chat_id THEN NoChat ELSE fail_chat

\* The event loop runs store_message on the oldest waiting update.  It can do so
\* only when its thread is free: not while summarize is inside the synchronous
\* generation call (father.py:90-98).
StoreMessage ==
    /\ inbox # << >>
    /\ pc # "generating"
    /\ Store(Head(inbox))
    /\ inbox' = Tail(inbox)
    /\ UNCHANGED << n_arrived, clock, clock_moves >>
    /\ UNCHANGED trigger_vars

-----------------------------------------------------------------------------
(* summarize *)

\* father.py:42-98  from the command to the first await or to the generation call
Summarize(chat_id, date) ==
    /\ pc = "idle"
    /\ n_triggers < MaxTriggers
    /\ n_triggers' = n_triggers + 1
    /\ t_chat' = chat_id
    /\ t_fresh' = (appended[chat_id] = << >>)
    /\ t_aged' = /\ chat_id \in DOMAIN message_history
                 /\ \A i \in 1..Len(message_history[chat_id]) :
                        message_history[chat_id][i].timestamp < date - RETENTION_WINDOW
    /\ t_after_fail' = (fail_chat = chat_id)
    /\ t_seen' = Len(appended[chat_id])
    /\ outcome' = "None"
    /\ delivered' = NoReply
    /\ gen_result' = NoResult
    /\ summary' = << >>
    /\ unhandled' = FALSE
    /\ pc' = Gate(chat_id)
    /\ text_to_summarize' = IF Gate(chat_id) \in {"reply_short", "generating"}
                            THEN Render(message_history[chat_id]) ELSE << >>
    /\ gen_calls' = IF Gate(chat_id) = "generating" THEN 1 ELSE 0
    /\ UNCHANGED << message_history, inbox, appended, last_chat, fail_chat, n_arrived, clock, clock_moves >>

\* ReplyGate without the return after "Not enough text to summarize.": the
\* handler goes on to the generation call
ReplyGateFallsThrough(sent) ==
    /\ pc \in {"reply_no_history", "reply_empty", "reply_short"}
    /\ outcome' = GateOutcome(pc)
    /\ delivered' = IF sent THEN GateReply(pc) ELSE NoReply
    /\ pc' = IF pc = "reply_short" THEN "generating" ELSE "idle"
    /\ gen_calls' = IF pc = "reply_short" THEN gen_calls + 1 ELSE gen_calls
    /\ UNCHANGED << message_history, inbox, appended, last_chat, fail_chat, n_arrived, clock, clock_moves,
                    t_chat, text_to_summarize, summary, gen_result, unhandled,
                    t_fresh, t_aged, t_after_fail, t_seen, n_triggers >>

\* father.py:49-56, 64-71, 79-86  sleep, reply, return; a failed reply is logged
ReplyGate(sent) ==
    /\ pc \in {"reply_no_history", "reply_empty", "reply_short"}
    /\ outcome' = GateOutcome(pc)
    /\ delivered' = IF sent THEN GateReply(pc) ELSE NoReply
    /\ pc' = "idle"
    /\ UNCHANGED << message_history, inbox, appended, last_chat, fail_chat, n_arrived, clock, clock_moves,
                    t_chat, text_to_summarize, summary, gen_calls, gen_result, unhandled,
                    t_fresh, t_aged, t_after_fail, t_seen, n_triggers >>

\* father.py:90-103  the call returns a text: strip it, then await sleep and reply
GenerationReturn(content) ==
    /\ pc = "generating"
    /\ gen_result' = [kind |-> "text", text |-> content]
    /\ summary' = Strip(content)
    /\ pc' = "reply_summary"
    /\ UNCHANGED << message_history, inbox, appended, last_chat, fail_chat, n_arrived, clock, clock_moves,
                    t_chat, text_to_summarize, outcome, delivered, gen_calls, unhandled,
                    t_fresh, t_aged, t_after_fail, t_seen, n_triggers >>

\* Caught with one automatic retry: the generation call is issued again
CaughtRetry(kind) ==
    /\ gen_result' = [kind |-> kind, text |-> << >>]
    /\ pc' = IF gen_calls < 2 THEN "generating" ELSE "reply_failed"
    /\ gen_calls' = IF gen_calls < 2 THEN gen_calls + 1 ELSE gen_calls
    /\ fail_chat' = IF kind = "fault" THEN t_chat ELSE fail_chat
    /\ UNCHANGED << message_history, inbox, appended, last_chat, n_arrived, clock, clock_moves,
                    t_chat, text_to_summarize, summary, outcome, delivered,
                    unhandled, t_fresh, t_aged, t_after_fail, t_seen, n_triggers >>

\* father.py:106-107  the except clause entered
Caught(kind) ==
    /\ gen_result' = [kind |-> kind, text |-> << >>]
    /\ pc' = "reply_failed"
    /\ fail_chat' = IF kind = "fault" THEN t_chat ELSE fail_chat
    /\ UNCHANGED << message_history, inbox, appended, last_chat, n_arrived, clock, clock_moves,
                    t_chat, text_to_summarize, summary, outcome, delivered, gen_calls,
                    unhandled, t_fresh, t_aged, t_after_fail, t_seen, n_triggers >>

\* father.py:90-98, 106  the call raises
GenerationFault ==
    /\ pc = "generating"
    /\ Caught("fault")

\* father.py:99, 106  the call returns no text: content is None, .strip() raises
GenerationMalformed ==
    /\ pc = "generating"
    /\ Caught("malformed")

\* ReplySummary that forgets the conversation once its summary is sent
ReplySummaryClears(sent) ==
    /\ pc = "reply_summary"
    /\ IF sent
       THEN /\ outcome' = "Summarized"
            /\ delivered' = SummaryReply(summary)
            /\ pc' = "idle"
            /\ message_history' = [c \in DOMAIN message_history \ {t_chat} |-> message_history[c]]
       ELSE /\ outcome' = outcome
            /\ delivered' = delivered
            /\ pc' = "reply_failed"
            /\ message_history' = message_history
    /\ UNCHANGED << inbox, appended, last_chat, fail_chat, n_arrived, clock, clock_moves,
                    t_chat, text_to_summarize, summary, gen_calls, gen_result, unhandled,
                    t_fresh, t_aged, t_after_fail, t_seen, n_triggers >>

\* father.py:103-105  the summary reply; father.py:106 when reply_text raises
ReplySummary(sent) ==
    /\ pc = "reply_summary"
    /\ IF sent
       THEN /\ outcome' = "Summarized"
            /\ delivered' = SummaryReply(summary)
            /\ pc' = "idle"
       ELSE /\ outcome' = outcome
            /\ delivered' = delivered
            /\ pc' = "reply_failed"
    /\ UNCHANGED << message_history, inbox, appended, last_chat, fail_chat, n_arrived, clock, clock_moves,
                    t_chat, text_to_summarize, summary, gen_calls, gen_result, unhandled,
                    t_fresh, t_aged, t_after_fail, t_seen, n_triggers >>

\* father.py:108-113  the failure reply; a failed reply is logged
ReplyFailed(sent) ==
    /\ pc = "reply_failed"
    /\ outcome' = "Failed"
    /\ delivered' = IF sent
                    THEN FixedReply("Failed to summarize messages. Please try again later.")
                    ELSE NoReply
    /\ pc' = "idle"
    /\ UNCHANGED << message_history, inbox, appended, last_chat, fail_chat, n_arrived, clock, clock_moves,
                    t_chat, text_to_summarize, summary, gen_calls, gen_result, unhandled,
                    t_fresh, t_aged, t_after_fail, t_seen, n_triggers >>

-----------------------------------------------------------------------------
(* Specification of the two handlers on one event loop *)

Next ==
    \/ \E update \in Updates : Arrive(update)
    \/ StoreMessage
    \/ \E chat_id \in Chats, date \in Times : Summarize(chat_id, date)
    \/ \E sent \in BOOLEAN : ReplyGate(sent)
    \/ \E content \in GenTexts : GenerationReturn(content)
    \/ GenerationFault
    \/ GenerationMalformed
    \/ \E sent \in BOOLEAN : ReplySummary(sent)
    \/ \E sent \in BOOLEAN : ReplyFailed(sent)

Spec == Init /\ [][Next]_vars

\* A step of a running summarize handler.  The event loop resumes the coroutine
\* after each await, and the generation call is taken to return or raise.
TriggerStep ==
    \/ \E sent \in BOOLEAN : ReplyGate(sent)
    \/ \E content \in GenTexts : GenerationReturn(content)
    \/ GenerationFault
    \/ GenerationMalformed
    \/ \E sent \in BOOLEAN : ReplySummary(sent)
    \/ \E sent \in BOOLEAN : ReplyFailed(sent)

SpecFair == Spec /\ WF_vars(TriggerStep)

-----------------------------------------------------------------------------
(* Specification of a long burst of messages in one chat: store_message runs  *)
(* on each update as it arrives, stamped with the clock; the clock moves a    *)
(* bounded number of times, forwards or backwards.                            *)

BurstChat == "A"

BurstUpdate ==
    [chat_id |-> BurstChat, text |-> <<"o", "k">>, date |-> clock,
     from_user |-> [username |-> <<"a", "l">>, first_name |-> <<"A", "l">>]]

\* One second back, one second on, or past the whole window
ClockSteps == {-1, 1, RETENTION_WINDOW + 1}

InitBurst == InitCommon /\ clock = RETENTION_WINDOW /\ clock_moves = 0

BurstMessage ==
    /\ Len(appended[BurstChat]) < MaxBurst
    /\ Store(BurstUpdate)
    /\ n_arrived' = n_arrived + 1
    /\ UNCHANGED << inbox, clock, clock_moves >>
    /\ UNCHANGED trigger_vars

BurstClock(step) ==
    /\ clock_moves < MaxClockMoves
    /\ clock' = clock + step
    /\ clock_moves' = clock_moves + 1
    /\ UNCHANGED << message_history, inbox, appended, last_chat, fail_chat, n_arrived >>
    /\ UNCHANGED trigger_vars

NextBurst ==
    \/ BurstMessage
    \/ \E step \in ClockSteps : BurstClock(step)

SpecBurst == InitBurst /\ [][NextBurst]_vars

-----------------------------------------------------------------------------
(* Specification of messages arriving in batches in one chat: store_message   *)
(* runs on each update as it arrives, stamped with the clock; the clock may   *)
(* move between two batches of BatchSize messages, so that a full history can *)
(* hold fresh messages followed by older-dated ones when a late date arrives. *)

BatchClock(step) ==
    /\ Len(appended[BurstChat]) % BatchSize = 0
    /\ clock_moves <= Len(appended[BurstChat]) \div BatchSize
    /\ clock' = clock + step
    /\ clock_moves' = clock_moves + 1
    /\ UNCHANGED << message_history, inbox, appended, last_chat, fail_chat, n_arrived >>
    /\ UNCHANGED trigger_vars

NextBatch ==
    \/ BurstMessage
    \/ \E step \in ClockSteps : BatchClock(step)

SpecBatch == InitBurst /\ [][NextBatch]_vars

-----------------------------------------------------------------------------
(* Properties *)

Timestamps(msgs) == { msgs[i].timestamp : i \in 1..Len(msgs) }

MaxOf(S) == CHOOSE x \in S : \A y \in S : x >= y
MinOf(S) == CHOOSE x \in S : \A y \in S : x <= y

\* The timestamps of msgs never decrease along the sequence
NonDecreasing(msgs) ==
    \A i \in 1..Len(msgs) - 1 : msgs[i].timestamp <= msgs[i + 1].timestamp

\* All of msgs lie inside one retention window
InOneWindow(msgs) ==
    msgs = << >> \/ MaxOf(Timestamps(msgs)) - MinOf(Timestamps(msgs)) <= RETENTION_WINDOW

\* A summarize command has been handled to its end
Finished == pc = "idle" /\ outcome # "None"

\* C1: after each append the retained sequence of every conversation has at
\* most MAX_RETAINED messages.
C1_LengthCapped ==
    \A c \in DOMAIN message_history : Len(message_history[c]) <= MAX_RETAINED

\* More than MAX_RETAINED messages were appended and the cap has cut the sequence.
C1_Witness ==
    /\ BurstChat \in DOMAIN message_history
    /\ Len(appended[BurstChat]) > MAX_RETAINED
    /\ Len(message_history[BurstChat]) = MAX_RETAINED

\* C2 as stated: after each append, whatever the order of the timestamps, every
\* retained message is no older than the maximum timestamp appended so far
\* minus RETENTION_WINDOW.
C2_Original ==
    \A c \in DOMAIN message_history :
        \A i \in 1..Len(message_history[c]) :
            message_history[c][i].timestamp
                >= MaxOf(Timestamps(appended[c])) - RETENTION_WINDOW

\* C2 amended: when the timestamps of a conversation arrived in non-decreasing
\* order, every retained message is no older than the maximum timestamp
\* appended so far minus RETENTION_WINDOW.
C2_InOrder ==
    \A c \in DOMAIN message_history :
        NonDecreasing(appended[c]) =>
            \A i \in 1..Len(message_history[c]) :
                message_history[c][i].timestamp
                    >= MaxOf(Timestamps(appended[c])) - RETENTION_WINDOW

\* Two messages arrived in order, the second one past the window of the first,
\* and the first one is gone.
C2_Witness ==
    \E c \in DOMAIN message_history :
        /\ Len(appended[c]) = 2
        /\ NonDecreasing(appended[c])
        /\ appended[c][2].timestamp > appended[c][1].timestamp + RETENTION_WINDOW
        /\ message_history[c] = << appended[c][2] >>

\* C3: when more than MAX_RETAINED messages, all inside one retention window,
\* have been appended to a conversation, its retained sequence is the last
\* MAX_RETAINED of them in arrival order.
C3_LastRetained ==
    \A c \in DOMAIN message_history :
        (Len(appended[c]) > MAX_RETAINED /\ InOneWindow(appended[c])) =>
            message_history[c] = LastN(appended[c], MAX_RETAINED)

\* MAX_RETAINED + 1 messages inside one window: the earliest retained message is
\* the 2nd appended, which differs from the 1st.
C3_Witness ==
    /\ BurstChat \in DOMAIN message_history
    /\ Len(appended[BurstChat]) = MAX_RETAINED + 1
    /\ InOneWindow(appended[BurstChat])
    /\ appended[BurstChat][1] # appended[BurstChat][2]
    /\ message_history[BurstChat][1] = appended[BurstChat][2]

\* C4: a summarize command for a chat no message was ever appended to ends in
\* NoHistory, issues no generation call, raises nothing out of the handler and
\* creates no entry for that chat in the store.
C4_NoHistory ==
    t_fresh =>
        /\ pc \in {"reply_no_history", "idle"}
        /\ outcome \in {"None", "NoHistory"}
        /\ pc = "idle" => outcome = "NoHistory"
        /\ gen_calls = 0
        /\ gen_result = NoResult
        /\ ~unhandled
        /\ appended[t_chat] = << >> => t_chat \notin DOMAIN message_history

\* Such a command has ended, and its chat still has no entry.
C4_Witness ==
    /\ t_fresh
    /\ Finished
    /\ outcome = "NoHistory"
    /\ t_chat \notin DOMAIN message_history

\* C5 as stated: a summarize command for a known chat whose messages are all
\* older than the retention window at the time of the command ends in
\* EmptyAfterFilter.
C5_Original ==
    (t_aged /\ Finished) => outcome = "EmptyAfterFilter"

\* C5 amended: a summarize command for a known chat whose messages are all older
\* than the retention window at the time of the command ends neither in
\* EmptyAfterFilter nor in NoHistory: the retained messages are rendered whatever
\* their age, and the command ends in InsufficientContent, Summarized or Failed.
C5_AgedStillRendered ==
    t_aged =>
        /\ pc \in {"reply_short", "generating", "reply_summary", "reply_failed", "idle"}
        /\ outcome \in {"None", "InsufficientContent", "Summarized", "Failed"}
        /\ text_to_summarize # << >>

\* A command on aged-out messages has delivered a summary.
C5_Witness ==
    /\ t_aged
    /\ Finished
    /\ outcome = "Summarized"

\* C6: when the rendered prompt body of a command is shorter than MIN_BODY, the
\* command ends in InsufficientContent and issues no generation call.
C6_ShortBodyGated ==
    (text_to_summarize # << >> /\ Len(text_to_summarize) < MIN_BODY) =>
        /\ pc \in {"reply_short", "idle"}
        /\ outcome \in {"None", "InsufficientContent"}
        /\ pc = "idle" => outcome = "InsufficientContent"
        /\ gen_calls = 0
        /\ gen_result = NoResult

\* A command with a short body has ended.
C6_Witness ==
    /\ text_to_summarize # << >>
    /\ Len(text_to_summarize) < MIN_BODY
    /\ Finished
    /\ outcome = "InsufficientContent"
    /\ gen_calls = 0

\* C7: when the generation call of a command returned a text s, the command
\* ends in Summarized(s), delivered as "Summary:" followed by s, and never in
\* the generic failure.
C7_SummarizedVerbatim ==
    gen_result.kind = "text" =>
        /\ pc \in {"reply_summary", "idle"}
        /\ outcome \in {"None", "Summarized"}
        /\ Finished => /\ summary = gen_result.text
                       /\ delivered = SummaryReply(gen_result.text)

\* C8: when the generation call of a command raised, the command ends in
\* Failed and nothing is raised out of the handler; and a later command on the
\* store that command left, whose generation call does not fail, ends in
\* Summarized.
C8_FailedNotPoisoned ==
    /\ ~unhandled
    /\ gen_result.kind = "fault" =>
           /\ pc \in {"reply_failed", "idle"}
           /\ pc = "idle" => outcome = "Failed"
    /\ (t_after_fail /\ Finished /\ gen_result.kind \notin {"fault", "malformed"}) =>
           outcome = "Summarized"

\* C9: ingest is never blocked by a pending generation call: whenever an update
\* is waiting while a command is inside its generation call, store_message can
\* run on it.
C9_IngestNotBlocked ==
    (pc = "generating" /\ inbox # << >>) => ENABLED StoreMessage

\* The entry of chat c in the store: whether it is a key, and its sequence
Entry(c) ==
    IF c \in DOMAIN message_history THEN << TRUE, message_history[c] >>
    ELSE << FALSE, << >> >>

\* C10: a step that appends to conversation a leaves the entry of every other
\* conversation b as it was.
C10_OtherChatsUntouched ==
    [][ \A a \in Chats, b \in Chats :
            (appended[a]' # appended[a] /\ b # a) => Entry(b)' = Entry(b) ]_vars

\* The latest append went to one chat with a date that would evict a message
\* another chat still retains.
C10_Witness ==
    \E a \in DOMAIN message_history, b \in DOMAIN message_history :
        /\ a # b
        /\ last_chat = a
        /\ \E i \in 1..Len(message_history[b]) :
               message_history[b][i].timestamp
                   < appended[a][Len(appended[a])].timestamp - RETENTION_WINDOW

\* The eviction policy as stated: of S followed by m, the messages no older than
\* m.timestamp - RETENTION_WINDOW, and of those the last MAX_RETAINED
Policy(S, m) ==
    LET fresh == SelectSeq(Append(S, m),
                           LAMBDA x : x.timestamp >= m.timestamp - RETENTION_WINDOW)
    IN  SubSeq(fresh, Max(1, Len(fresh) - MAX_RETAINED + 1), Len(fresh))

\* The retained sequence the policy gives after the appends of log, one by one
RECURSIVE Replay(_)
Replay(log) ==
    IF log = << >> THEN << >>
    ELSE Policy(Replay(SubSeq(log, 1, Len(log) - 1)), log[Len(log)])

\* C11: the prompt body a command sends to the generation call is the rendering
\* of its conversation's retained sequence as it stood after the last append
\* completed before the command read it: the state after a whole append, with
\* the eviction applied, whatever is appended while the command is in flight.
C11_BodyOfOneSnapshot ==
    gen_calls > 0 =>
        /\ t_seen >= 1
        /\ text_to_summarize = Render(Replay(SubSeq(appended[t_chat], 1, t_seen)))

\* A command is waiting to send its summary while a later append to the same
\* chat has evicted what the command rendered.
C11_Witness ==
    /\ gen_calls > 0
    /\ pc = "reply_summary"
    /\ Len(appended[t_chat]) > t_seen
    /\ Render(message_history[t_chat]) # text_to_summarize

\* C12: a command issues at most one generation call: after a generation call
\* that failed it never issues a second one, and a command that ends in
\* NoHistory, EmptyAfterFilter or InsufficientContent issues none.
C12_AtMostOneCall ==
    /\ gen_calls <= 1
    /\ gen_result.kind \in {"fault", "malformed"} =>
           (gen_calls = 1 /\ pc \in {"reply_failed", "idle"})
    /\ (pc \in {"reply_no_history", "reply_empty", "reply_short"}
           \/ outcome \in {"NoHistory", "EmptyAfterFilter", "InsufficientContent"}) =>
           gen_calls = 0

\* A command whose generation call raised has ended, with one call issued.
C12_Witness ==
    /\ gen_result.kind = "fault"
    /\ Finished
    /\ outcome = "Failed"
    /\ gen_calls = 1

\* C13: a chat a message was once appended to is a key of the store in every
\* later state, and no later command on it ends in NoHistory.
C13_KeyPersists ==
    /\ \A c \in Chats : appended[c] # << >> => c \in DOMAIN message_history
    /\ (t_chat # NoChat /\ ~t_fresh) =>
           (pc # "reply_no_history" /\ outcome # "NoHistory")

\* Both chats have been appended to, and a command on the chat that was
\* appended to first has ended after the append to the other one.
C13_Witness ==
    /\ \A c \in Chats : appended[c] # << >>
    /\ t_chat \in Chats
    /\ t_chat # last_chat
    /\ t_seen = Len(appended[t_chat])
    /\ ~t_fresh
    /\ Finished

\* C14: an append of m to a conversation whose retained sequence was S leaves
\* the last MAX_RETAINED of the messages of (S followed by m) that are no older
\* than m.timestamp - RETENTION_WINDOW: the time filter first, the count cap
\* second, a message exactly RETENTION_WINDOW older than m kept.
C14_FilterThenCap ==
    [][ \A c \in Chats :
            appended[c]' # appended[c] =>
                /\ c \in DOMAIN message_history'
                /\ message_history'[c] =
                       Policy(IF c \in DOMAIN message_history THEN message_history[c] ELSE << >>,
                              appended[c]'[Len(appended[c]')]) ]_vars

\* MAX_RETAINED messages inside one window were retained (none evicted, the cap
\* not yet exceeded) when m arrived; the first of them is exactly RETENTION_WINDOW
\* older than m and was kept, while later, older-dated ones were dropped: the
\* case in which the order of the two steps shows.
C14_Witness ==
    /\ BurstChat \in DOMAIN message_history
    /\ Len(appended[BurstChat]) = MAX_RETAINED + 1
    /\ LET log == appended[BurstChat]
           m   == log[Len(log)]
           S   == SubSeq(log, 1, MAX_RETAINED)
       IN  /\ InOneWindow(S)
           /\ S[1].timestamp = m.timestamp - RETENTION_WINDOW
           /\ \E i \in 1..Len(S) : S[i].timestamp < m.timestamp - RETENTION_WINDOW
           /\ message_history[BurstChat][1] = S[1]
           /\ Len(message_history[BurstChat]) < MAX_RETAINED

\* C15: after each append every retained message of the conversation is no
\* older than the timestamp of the latest-appended message minus
\* RETENTION_WINDOW; and a command that reads a conversation after two appends,
\* the second dated more than RETENTION_WINDOW after the first, renders the
\* second message alone.
C15_LatestAppendedWindow ==
    /\ \A c \in DOMAIN message_history :
           \A i \in 1..Len(message_history[c]) :
               message_history[c][i].timestamp
                   >= appended[c][Len(appended[c])].timestamp - RETENTION_WINDOW
    /\ (/\ t_chat \in Chats
        /\ t_seen = 2
        /\ appended[t_chat][2].timestamp > appended[t_chat][1].timestamp + RETENTION_WINDOW) =>
           text_to_summarize = RenderMessage(appended[t_chat][2])

\* Such a command has ended: the first message was evicted by the second append
\* and the command rendered the second message only.
C15_Witness ==
    /\ t_chat \in Chats
    /\ t_seen = 2
    /\ appended[t_chat][2].timestamp > appended[t_chat][1].timestamp + RETENTION_WINDOW
    /\ message_history[t_chat] = << appended[t_chat][2] >>
    /\ text_to_summarize = RenderMessage(appended[t_chat][2])
    /\ Finished

RECURSIVE IsSubseq(_, _)
IsSubseq(s, t) ==
    IF s = << >> THEN TRUE
    ELSE IF t = << >> THEN FALSE
    ELSE IF s[1] = t[1] THEN IsSubseq(Tail(s), Tail(t))
    ELSE IsSubseq(s, Tail(t))

\* The retained sequence of chat c, empty when c is not a key of the store
Retained(c) ==
    IF c \in DOMAIN message_history THEN message_history[c] ELSE << >>

\* C16: in every reachable state the retained sequence of a conversation is a
\* subsequence, in arrival order, of the messages appended to it; and every
\* step leaves a subsequence of what was retained before, followed by the
\* message the step appended if it appended one: nothing is reordered,
\* duplicated or brought back.
C16_ArrivalOrderKept ==
    /\ [](\A c \in Chats : IsSubseq(Retained(c), appended[c]))
    /\ [][\A c \in Chats :
            IF appended[c]' # appended[c]
            THEN /\ Retained(c)' # << >>
                 /\ Retained(c)'[Len(Retained(c)')] = appended[c]'[Len(appended[c]')]
                 /\ IsSubseq(SubSeq(Retained(c)', 1, Len(Retained(c)') - 1), Retained(c))
            ELSE Retained(c)' = Retained(c)]_vars

\* An append has evicted the message before it: two messages were appended to
\* a conversation and only the second is retained.
C16_Witness ==
    \E c \in DOMAIN message_history :
        /\ Len(appended[c]) = 2
        /\ appended[c][1] # appended[c][2]
        /\ message_history[c] = << appended[c][2] >>

\* C17: every step of a /summarize command, whatever outcome it leads to,
\* leaves the keys of the store and every retained sequence as they were; and a
\* command on the conversation of the command before it, with no append to
\* that conversation since that command read it, builds the same body.
C17_TriggerLeavesStore ==
    [][/\ pc' # pc => message_history' = message_history
       /\ (/\ pc = "idle"
           /\ pc' # "idle"
           /\ t_chat \in Chats
           /\ t_chat' = t_chat
           /\ Len(appended[t_chat]) = t_seen) =>
              text_to_summarize' = text_to_summarize]_vars

\* A second command on a conversation has been answered with a summary after a
\* first one failed in the generation call; the conversation received one
\* message in all, so nothing was appended between the two commands, and the
\* store still holds that message.
C17_Witness ==
    /\ Finished
    /\ outcome = "Summarized"
    /\ t_after_fail
    /\ Len(appended[t_chat]) = 1
    /\ t_chat \in DOMAIN message_history
    /\ message_history[t_chat] = appended[t_chat]
    /\ text_to_summarize = Render(appended[t_chat])

GateOutcomes == {"NoHistory", "EmptyAfterFilter", "InsufficientContent"}
TerminalOutcomes == GateOutcomes \cup {"Summarized", "Failed"}

\* C18: given that the generation call returns or raises, every /summarize
\* command that has started ends with an outcome; the outcome is one of the
\* five, it is set once, when the handler ends, and it stays until the next
\* command starts; and a command moves from its start to one of the three gate
\* replies or to the generation call, from a gate reply to the gate's outcome,
\* from the generation call to the summary reply or the failure reply, and
\* from those to Summarized or Failed.
C18_ReachesOneOutcome ==
    /\ (pc # "idle") ~> Finished
    /\ [](/\ pc # "idle" => outcome = "None"
          /\ (pc = "idle" /\ n_triggers > 0) => outcome \in TerminalOutcomes)
    /\ [][/\ (pc = "idle" /\ pc' # "idle") =>
                /\ pc' \in {"reply_no_history", "reply_empty", "reply_short", "generating"}
                /\ n_triggers' = n_triggers + 1
          /\ (pc \in {"reply_no_history", "reply_empty", "reply_short"} /\ pc' # pc) =>
                /\ pc' = "idle"
                /\ outcome' = GateOutcome(pc)
                /\ gen_calls' = 0
          /\ (pc = "generating" /\ pc' # pc) => pc' \in {"reply_summary", "reply_failed"}
          /\ (pc = "reply_summary" /\ pc' # pc) =>
                \/ pc' = "idle" /\ outcome' = "Summarized"
                \/ pc' = "reply_failed"
          /\ (pc = "reply_failed" /\ pc' # pc) => pc' = "idle" /\ outcome' = "Failed"
          /\ (outcome # "None" /\ outcome' # outcome) =>
                /\ outcome' = "None"
                /\ n_triggers' = n_triggers + 1]_vars

\* A second command has gone through the generation call and ended Summarized,
\* after the first one ended.
C18_Witness ==
    /\ n_triggers = 2
    /\ Finished
    /\ outcome = "Summarized"
    /\ gen_calls = 1
    /\ gen_result.kind = "text"

\* C19: in every reachable state every key of the store maps to a non-empty
\* sequence whose last element is the message most recently appended to that
\* conversation, a conversation that has no message appended is not a key, and
\* no command finds an empty sequence under a key.
C19_LastIsLatestAppended ==
    /\ \A c \in DOMAIN message_history :
           /\ message_history[c] # << >>
           /\ appended[c] # << >>
           /\ message_history[c][Len(message_history[c])] = appended[c][Len(appended[c])]
    /\ pc # "reply_empty"
    /\ outcome # "EmptyAfterFilter"

\* A message dated before the one already retained was appended after it and
\* is the last element of the conversation's sequence, and a command has since
\* read the conversation.
C19_Witness ==
    /\ t_chat \in DOMAIN message_history
    /\ t_seen = 2
    /\ Len(appended[t_chat]) = 2
    /\ appended[t_chat][2].timestamp < appended[t_chat][1].timestamp
    /\ message_history[t_chat] = appended[t_chat]
    /\ outcome \in TerminalOutcomes

\* The number of updates store_message has returned from without appending
Dropped ==
    n_arrived - Len(inbox) - (Len(appended["A"]) + Len(appended["B"]))

\* C20: a step in which store_message takes an update with empty text leaves
\* the store as it was: the same keys, the same sequence under each key and
\* nothing appended; and a /summarize command for a conversation no message was
\* appended to, whatever empty-text updates it received, goes to the
\* "No messages stored" reply.
C20_EmptyTextDropped ==
    [][/\ (/\ inbox # << >>
           /\ inbox' = Tail(inbox)
           /\ Head(inbox).text = << >>) =>
              /\ message_history' = message_history
              /\ appended' = appended
       /\ (/\ pc = "idle"
           /\ pc' # "idle"
           /\ appended[t_chat'] = << >>) =>
              pc' = "reply_no_history"]_vars

\* Every update that arrived had empty text and was dropped, the store has no
\* key, and a command has ended in NoHistory.
C20_Witness ==
    /\ Dropped >= 1
    /\ Dropped = n_arrived
    /\ message_history = << >>
    /\ Finished
    /\ outcome = "NoHistory"
    /\ delivered = FixedReply("No messages stored for this chat yet.")

====
